---- MODULE Spec2Model ----
(***************************************************************************)
(* Model of visualize_graph.py: the interactive route visualizer.          *)
(*                                                                         *)
(* Text is modelled as a sequence of one-character strings, so that strip, *)
(* lower, split, isdigit and int are computed character by character.      *)
(***************************************************************************)
EXTENDS Integers, Sequences, FiniteSets, TLC

VARIABLES
    \* route parsing (extract_nodes)
    tokens, hasPrefix, path_line, parsed, parsePc,
    \* layouts (compute_pos, layout_snake, layout_single_row)
    route, cols, layoutName, layoutPos, layoutPc,
    \* node labels (draw_path_interactive, label_every_auto)
    drawNodes, label_every, labels, labelPc,
    \* configuration (Config.from_env, apply_cli_overrides)
    env, args, cfg, step, cfgPc,
    \* the interactive loop (repl, visualize_once, choose_single_route)
    store, pc, cmd, route_lines, shown, choice, chosen, nodes, pos,
    posComputed, fileWritten, browserOpened

parseVars == <<tokens, hasPrefix, path_line, parsed, parsePc>>
layoutVars == <<route, cols, layoutName, layoutPos, layoutPc>>
labelVars == <<drawNodes, label_every, labels, labelPc>>
cfgVars == <<env, args, cfg, step, cfgPc>>
\* the locals of one call of visualize_once
attemptVars ==
    <<route_lines, shown, choice, chosen, nodes, pos, posComputed,
      fileWritten, browserOpened>>
mainVars == <<store, pc, cmd, attemptVars>>
vars == <<parseVars, layoutVars, labelVars, cfgVars, mainVars>>

\* Optional values (None or a value) are sequences of length 0 or 1.
NoneV == <<>>
Some(v) == <<v>>
IsNone(o) == Len(o) = 0
Val(o) == o[1]

Max(a, b) == IF a >= b THEN a ELSE b
Min(a, b) == IF a <= b THEN a ELSE b

(***************************************************************************)
(* Bounds of the model.                                                    *)
(***************************************************************************)
MaxTokens == 3
MaxWs == 1
MaxRouteLen == 5
NumNodes == 5
MaxCols == 3
MaxPathLen == 100
MaxLabelEvery == 6
MaxRoutes == 2

(***************************************************************************)
(* str methods.                                                            *)
(***************************************************************************)
IsSpace(c) == c \in {" ", "\t"}

RECURSIVE LStrip(_)
LStrip(s) == IF s # <<>> /\ IsSpace(Head(s)) THEN LStrip(Tail(s)) ELSE s

RECURSIVE RStrip(_)
RStrip(s) ==
    IF s # <<>> /\ IsSpace(s[Len(s)]) THEN RStrip(SubSeq(s, 1, Len(s) - 1)) ELSE s

Strip(s) == LStrip(RStrip(s))

UpperLetters ==
    <<"A", "B", "C", "D", "E", "F", "G", "H", "I", "J", "K", "L", "M",
      "N", "O", "P", "Q", "R", "S", "T", "U", "V", "W", "X", "Y", "Z">>
LowerLetters ==
    <<"a", "b", "c", "d", "e", "f", "g", "h", "i", "j", "k", "l", "m",
      "n", "o", "p", "q", "r", "s", "t", "u", "v", "w", "x", "y", "z">>

LowerChar(c) ==
    IF \E i \in 1..26 : UpperLetters[i] = c
    THEN LowerLetters[CHOOSE i \in 1..26 : UpperLetters[i] = c]
    ELSE c

Lower(s) == [i \in 1..Len(s) |-> LowerChar(s[i])]

StartsWith(s, p) == Len(s) >= Len(p) /\ SubSeq(s, 1, Len(p)) = p

\* s[k:]
DropFirst(s, k) == SubSeq(s, k + 1, Len(s))

\* str.split(sep): cut at each leftmost, non-overlapping occurrence of sep
RECURSIVE SplitFrom(_, _, _)
SplitFrom(s, sep, cur) ==
    IF s = <<>> THEN <<cur>>
    ELSE IF StartsWith(s, sep)
         THEN <<cur>> \o SplitFrom(DropFirst(s, Len(sep)), sep, <<>>)
         ELSE SplitFrom(Tail(s), sep, Append(cur, Head(s)))

Split(s, sep) == SplitFrom(s, sep, <<>>)

\* Characters for which str.isdigit is true: the decimal digits and digit
\* characters that are not decimal, such as SUPERSCRIPT TWO (U+00B2).
DecimalDigits == <<"0", "1", "2", "3", "4", "5", "6", "7", "8", "9">>
SuperscriptTwo == "^2"

IsDecimalChar(c) == \E i \in 1..10 : DecimalDigits[i] = c
IsDigitChar(c) == IsDecimalChar(c) \/ c = SuperscriptTwo
DigitVal(c) == (CHOOSE i \in 1..10 : DecimalDigits[i] = c) - 1

isdigit(s) == s # <<>> /\ \A i \in 1..Len(s) : IsDigitChar(s[i])

RECURSIVE DigitsValue(_)
DigitsValue(s) ==
    IF s = <<>> THEN 0
    ELSE DigitsValue(SubSeq(s, 1, Len(s) - 1)) * 10 + DigitVal(s[Len(s)])

\* int(s): blanks are trimmed, one sign is allowed, the rest must be decimal
\* digits; anything else raises ValueError (ok = FALSE).
py_int(s) ==
    LET t == Strip(s)
        signed == t # <<>> /\ t[1] \in {"-", "+"}
        d == IF signed THEN Tail(t) ELSE t
        ok == d # <<>> /\ \A i \in 1..Len(d) : IsDecimalChar(d[i])
    IN [ok |-> ok,
        val |-> IF ~ok THEN 0
                ELSE IF t[1] = "-" THEN -DigitsValue(d) ELSE DigitsValue(d)]

Arrow == <<"-", ">">>
PathPrefix == <<"P", "a", "t", "h", ":">>

(***************************************************************************)
(* extract_nodes                                                           *)
(***************************************************************************)
\* extract_nodes with a case-sensitive prefix test
extract_nodes_cs(line) ==
    LET prefix == PathPrefix
        s0 == Strip(line)
        s == IF StartsWith(s0, prefix)
             THEN Strip(DropFirst(s0, Len(prefix)))
             ELSE s0
        parts == [i \in 1..Len(Split(s, Arrow)) |-> Strip(Split(s, Arrow)[i])]
    IN SelectSeq(parts, LAMBDA p : p # <<>>)

extract_nodes(line) ==
    LET prefix == PathPrefix
        s0 == Strip(line)
        s == IF StartsWith(Lower(s0), Lower(prefix))
             THEN Strip(DropFirst(s0, Len(prefix)))
             ELSE s0
        parts == [i \in 1..Len(Split(s, Arrow)) |-> Strip(Split(s, Arrow)[i])]
    IN SelectSeq(parts, LAMBDA p : p # <<>>)

(***************************************************************************)
(* Inputs of the parsing check: a line is built from tokens (node labels   *)
(* and empty tokens), an optional prefix and runs of blanks.               *)
(***************************************************************************)
Labels ==
    { <<"a">>, <<"b">>, <<"a", "-">>, <<">", "b">>, <<"P">>,
      <<"a", " ", "b">>, <<"p", "A", "t", "H", ":", "c">> }

Tokens == Labels \cup {<<>>}

PrefixVariants ==
    { <<>>, PathPrefix, <<"P", "A", "T", "H", ":">>, <<"p", "a", "t", "h", ":">> }

SeqsUpTo(S, n) == UNION {[1..k -> S] : k \in 0..n}

Blanks(k) == [i \in 1..k |-> " "]

RECURSIVE Join(_, _)
Join(ts, sep) ==
    IF ts = <<>> THEN <<>>
    ELSE IF Len(ts) = 1 THEN ts[1]
    ELSE ts[1] \o sep \o Join(Tail(ts), sep)

BuildLine(ts, pre, wsPre, wsBefore, wsAfter) ==
    Blanks(wsPre) \o pre \o Blanks(wsPre)
        \o Join(ts, Blanks(wsBefore) \o Arrow \o Blanks(wsAfter))
        \o Blanks(wsPre)

IdleParse ==
    /\ tokens = <<>>
    /\ hasPrefix = FALSE
    /\ path_line = <<>>
    /\ parsed = <<>>
    /\ parsePc = "idle"

IdleLayout ==
    /\ route = <<>>
    /\ cols = 2
    /\ layoutName = <<>>
    /\ layoutPos = <<>>
    /\ layoutPc = "idle"

IdleLabel ==
    /\ drawNodes = <<>>
    /\ label_every = NoneV
    /\ labels = <<>>
    /\ labelPc = "idle"

IdleConfig ==
    /\ env = <<>>
    /\ args = <<>>
    /\ cfg = <<>>
    /\ step = 0
    /\ cfgPc = "idle"

NoAttempt ==
    /\ route_lines = <<>>
    /\ shown = 0
    /\ choice = <<>>
    /\ chosen = <<>>
    /\ nodes = <<>>
    /\ pos = <<>>
    /\ posComputed = FALSE
    /\ fileWritten = FALSE
    /\ browserOpened = FALSE

IdleMain ==
    /\ store = <<>>
    /\ pc = "idle"
    /\ cmd = <<>>
    /\ NoAttempt

InitParse ==
    /\ tokens \in SeqsUpTo(Tokens, MaxTokens)
    /\ \E pre \in PrefixVariants, wsPre \in 0..MaxWs, wsBefore \in 0..MaxWs,
          wsAfter \in 0..MaxWs :
          /\ hasPrefix = (pre # <<>>)
          /\ path_line = BuildLine(tokens, pre, wsPre, wsBefore, wsAfter)
    /\ parsed = <<>>
    /\ parsePc = "input"
    /\ IdleLayout
    /\ IdleLabel
    /\ IdleConfig
    /\ IdleMain

ExtractNodes ==
    /\ parsePc = "input"
    /\ parsed' = extract_nodes(path_line)
    /\ parsePc' = "done"
    /\ UNCHANGED <<tokens, hasPrefix, path_line, layoutVars, labelVars, cfgVars,
                   mainVars>>

NextParse == ExtractNodes

SpecParse == InitParse /\ [][NextParse]_vars

NonEmptyTokens == SelectSeq(tokens, LAMBDA t : t # <<>>)

FirstTokenStartsWithPrefix ==
    /\ tokens # <<>>
    /\ StartsWith(Lower(tokens[1]), <<"p", "a", "t", "h", ":">>)

\* C4 (as stated): a line built from the labels, with or without the
\* "Path:" prefix in any letter case and with any blanks around prefix,
\* labels and arrows, parses to exactly the non-empty labels, in order and
\* with duplicates kept.
C4_ParseExact == parsePc = "done" => parsed = NonEmptyTokens

\* C4 (amended): the same, provided that when the prefix is omitted the
\* first label does not itself begin with "Path:" (in any letter case).
C4_ParseExactUnlessAmbiguous ==
    (parsePc = "done" /\ (hasPrefix \/ ~FirstTokenStartsWithPrefix))
        => parsed = NonEmptyTokens

C4_Witness ==
    /\ parsePc = "done"
    /\ hasPrefix
    /\ Len(tokens) = 3
    /\ tokens[1] = <<"a", "-">>
    /\ tokens[2] = <<>>
    /\ tokens[3] = <<"a", "-">>
    /\ Len(path_line) > Len(PathPrefix) + 8
    /\ ~StartsWith(path_line, PathPrefix)
    /\ parsed = << <<"a", "-">>, <<"a", "-">> >>

(***************************************************************************)
(* Layouts.  Coordinates are kept in tenths so that the vertical spacing   *)
(* 1.2 is the integer 12; a position is <<x, y>>.  A dict is a function on *)
(* the set of its keys; assigning to a key replaces its value.             *)
(***************************************************************************)
SpacingX == 10
SpacingY == 12

EmptyDict == <<>>
DictSet(d, k, v) == [x \in (DOMAIN d) \cup {k} |-> IF x = k THEN v ELSE d[x]]

layout_single_row(ns) ==
    LET F[i \in 0..Len(ns)] ==
            IF i = 0 THEN EmptyDict
            ELSE DictSet(F[i - 1], ns[i], <<(i - 1) * SpacingX, 0>>)
    IN F[Len(ns)]

\* layout_snake that never mirrors a row
layout_snake_nomirror(ns, c) ==
    LET F[k \in 0..Len(ns)] ==
            IF k = 0 THEN EmptyDict
            ELSE LET i == k - 1
                     row == i \div c
                     col == i % c
                 IN DictSet(F[k - 1], ns[k], <<col * SpacingX, -(row * SpacingY)>>)
    IN F[Len(ns)]

layout_snake(ns, c) ==
    LET F[k \in 0..Len(ns)] ==
            IF k = 0 THEN EmptyDict
            ELSE LET i == k - 1
                     row == i \div c
                     col == i % c
                     x == IF row % 2 = 0 THEN col * SpacingX
                          ELSE (c - 1 - col) * SpacingX
                     y == -(row * SpacingY)
                 IN DictSet(F[k - 1], ns[k], <<x, y>>)
    IN F[Len(ns)]

Single == <<"s", "i", "n", "g", "l", "e">>
Snake == <<"s", "n", "a", "k", "e">>

compute_pos(ns, layout, cols_per_row) ==
    IF layout = Single THEN layout_single_row(ns)
    ELSE layout_snake(ns, cols_per_row)

NodeIds == 1..NumNodes

InitLayout ==
    /\ route \in SeqsUpTo(NodeIds, MaxRouteLen)
    /\ cols \in 2..MaxCols
    /\ layoutName \in {Snake, Single}
    /\ layoutPos = EmptyDict
    /\ layoutPc = "input"
    /\ IdleParse
    /\ IdleLabel
    /\ IdleConfig
    /\ IdleMain

ComputePos ==
    /\ layoutPc = "input"
    /\ layoutPos' = compute_pos(route, layoutName, cols)
    /\ layoutPc' = "done"
    /\ UNCHANGED <<route, cols, layoutName, parseVars, labelVars, cfgVars,
                   mainVars>>

NextLayout == ComputePos

SpecLayout == InitLayout /\ [][NextLayout]_vars

\* The position the drawing code looks up for the node at 0-based index i.
PosAt(i) == layoutPos[route[i + 1]]

SnakeX(i) ==
    LET r == i \div cols
        c == i % cols
    IN IF r % 2 = 0 THEN c * SpacingX ELSE (cols - 1 - c) * SpacingX

SnakeDone == layoutPc = "done" /\ layoutName = Snake

Distinct(ns) == \A i, j \in 1..Len(ns) : i # j => ns[i] # ns[j]

\* C5: in the snake layout the position looked up for the node at index i
\* is that of row floor(i / C), column i mod C (mirrored in odd rows), and
\* y strictly decreases with the row, for every route, repeated nodes
\* included.
C5_SnakeByIndex ==
    SnakeDone =>
        /\ \A i \in 0..(Len(route) - 1) :
               /\ PosAt(i)[1] = SnakeX(i)
               /\ PosAt(i)[2] = -((i \div cols) * SpacingY)
        /\ \A i, j \in 0..(Len(route) - 1) :
               (i \div cols) < (j \div cols) => PosAt(i)[2] > PosAt(j)[2]

\* C8: for a route of pairwise distinct nodes, consecutive nodes are one
\* grid step apart (same row and one horizontal spacing, or next row and
\* the same x) and no two indices share a coordinate.
C8_SnakeContinuous ==
    (SnakeDone /\ Distinct(route)) =>
        /\ \A i \in 0..(Len(route) - 2) :
               LET p == PosAt(i)
                   q == PosAt(i + 1)
               IN \/ /\ p[2] = q[2]
                     /\ (q[1] - p[1] = SpacingX \/ p[1] - q[1] = SpacingX)
                  \/ /\ q[2] = p[2] - SpacingY
                     /\ q[1] = p[1]
        /\ \A i, j \in 0..(Len(route) - 1) : i # j => PosAt(i) # PosAt(j)

C8_Witness ==
    /\ SnakeDone
    /\ Distinct(route)
    /\ cols = 2
    /\ Len(route) = 5
    /\ PosAt(1) = <<SpacingX, 0>>
    /\ PosAt(2) = <<SpacingX, -SpacingY>>
    /\ PosAt(3) = <<0, -SpacingY>>
    /\ PosAt(4) = <<0, -(2 * SpacingY)>>

(***************************************************************************)
(* Labels of draw_path_interactive.                                        *)
(***************************************************************************)
\* label_every_auto aiming at 25 labels
label_every_auto_25(n) ==
    IF n <= 25 THEN 1
    ELSE LET target == 25 IN Max(1, n \div target)

label_every_auto(n) ==
    IF n <= 25 THEN 1
    ELSE LET target == 20 IN Max(1, n \div target)

\* step of draw_path_interactive; le is label_every (None or an integer)
LabelStep(le, n) ==
    IF ~IsNone(le) /\ Val(le) # 0 /\ Val(le) > 0 THEN Val(le)
    ELSE label_every_auto(n)

EmptyText == <<>>

\* the text of the node trace
NodeLabels(ns, le) ==
    LET st == LabelStep(le, Len(ns))
    IN [k \in 1..Len(ns) |->
          LET i == k - 1
          IN IF i = 0 \/ i = Len(ns) - 1 \/ i % st = 0 THEN ns[k] ELSE EmptyText]

\* draw_path_interactive raises ValueError for fewer than 2 nodes
DrawRaises(ns) == Len(ns) < 2

InitLabel ==
    /\ \E n \in 0..MaxPathLen : drawNodes = [i \in 1..n |-> <<"v">>]
    /\ label_every \in {NoneV} \cup {Some(k) : k \in (-1)..MaxLabelEvery}
    /\ labels = <<>>
    /\ labelPc = "input"
    /\ IdleParse
    /\ IdleLayout
    /\ IdleConfig
    /\ IdleMain

DrawLabels ==
    /\ labelPc = "input"
    /\ IF DrawRaises(drawNodes)
       THEN labels' = <<>> /\ labelPc' = "raised"
       ELSE labels' = NodeLabels(drawNodes, label_every) /\ labelPc' = "done"
    /\ UNCHANGED <<drawNodes, label_every, parseVars, layoutVars, cfgVars,
                   mainVars>>

NextLabel == DrawLabels

SpecLabel == InitLabel /\ [][NextLabel]_vars

Labelled == {k \in 1..Len(labels) : labels[k] # EmptyText}

\* C6: a path of more than 25 nodes drawn with label_every unset gets at
\* most 20 labels plus the first and the last node.
C6_AtMostTwentyLabels ==
    (labelPc = "done" /\ Len(drawNodes) > 25 /\ IsNone(label_every))
        => Cardinality(Labelled) <= 20 + 2

ClaimedStep ==
    LET n == Len(drawNodes)
    IN IF ~IsNone(label_every) /\ Val(label_every) > 0 THEN Val(label_every)
       ELSE IF n <= 25 THEN 1
       ELSE IF n \div 20 >= 1 THEN n \div 20 ELSE 1

env_int(val, default) ==
    IF IsNone(val) THEN default
    ELSE IF py_int(Strip(Val(val))).ok THEN py_int(Strip(Val(val))).val
    ELSE default

env_bool(val, default) ==
    IF IsNone(val) THEN default
    ELSE Lower(Strip(Val(val)))
            \notin { <<"0">>, <<"f", "a", "l", "s", "e">>, <<"n", "o">> }

env_str(val, default) == IF IsNone(val) THEN default ELSE Val(val)

from_env(e) ==
    [ layout |-> Lower(env_str(e.LAYOUT, Snake)),
      cols_per_row |-> Max(2, env_int(e.COLS_PER_ROW, 25)),
      max_display_routes |-> env_int(e.MAX_DISPLAY_ROUTES, 200),
      label_every |->
          IF ~IsNone(e.LABEL_EVERY)
          THEN IF env_int(e.LABEL_EVERY, -1) # 0
               THEN Some(env_int(e.LABEL_EVERY, -1))
               ELSE NoneV
          ELSE NoneV,
      open_in_browser |-> env_bool(e.OPEN_IN_BROWSER, TRUE) ]

\* apply_cli_overrides taking any --cols that is not 0
apply_cli_overrides_anycols(c, a) ==
    [ layout |-> IF ~IsNone(a.layout) THEN Val(a.layout) ELSE c.layout,
      cols_per_row |->
          IF ~IsNone(a.cols) /\ Val(a.cols) # 0
          THEN Val(a.cols) ELSE c.cols_per_row,
      max_display_routes |-> c.max_display_routes,
      label_every |->
          IF ~IsNone(a.label_every) /\ Val(a.label_every) # 0
               /\ Val(a.label_every) > 0
          THEN a.label_every ELSE c.label_every,
      open_in_browser |-> IF a.no_browser THEN FALSE ELSE c.open_in_browser ]

apply_cli_overrides(c, a) ==
    [ layout |-> IF ~IsNone(a.layout) THEN Val(a.layout) ELSE c.layout,
      cols_per_row |->
          IF ~IsNone(a.cols) /\ Val(a.cols) # 0 /\ Val(a.cols) > 1
          THEN Val(a.cols) ELSE c.cols_per_row,
      max_display_routes |-> c.max_display_routes,
      label_every |->
          IF ~IsNone(a.label_every) /\ Val(a.label_every) # 0
               /\ Val(a.label_every) > 0
          THEN a.label_every ELSE c.label_every,
      open_in_browser |-> IF a.no_browser THEN FALSE ELSE c.open_in_browser ]

\* Values an integer environment variable is given: unset, zero, negative,
\* positive, padded with blanks, empty and not a number.
EnvIntTexts ==
    { NoneV, Some(<<"0">>), Some(<<"-", "1">>), Some(<<"1">>), Some(<<"3">>),
      Some(<<" ", "2", " ">>), Some(<<>>), Some(<<"x">>) }

CliInts == {NoneV} \cup {Some(k) : k \in (-1)..3}

NoArgs ==
    [layout |-> NoneV, cols |-> NoneV, label_every |-> NoneV, no_browser |-> FALSE]

InitConfig ==
    /\ env \in [ LAYOUT : {NoneV}, COLS_PER_ROW : EnvIntTexts,
                 MAX_DISPLAY_ROUTES : {NoneV}, LABEL_EVERY : EnvIntTexts,
                 OPEN_IN_BROWSER : {NoneV} ]
    /\ args \in [ layout : {NoneV}, cols : CliInts, label_every : CliInts,
                  no_browser : {FALSE} ]
    /\ cfg = <<>>
    /\ step = 0
    /\ cfgPc = "start"
    /\ IdleParse
    /\ IdleLayout
    /\ IdleLabel
    /\ IdleMain

FromEnv ==
    /\ cfgPc = "start"
    /\ cfg' = from_env(env)
    /\ cfgPc' = "loaded"
    /\ UNCHANGED <<env, args, step, parseVars, layoutVars, labelVars, mainVars>>

ApplyCliOverrides ==
    /\ cfgPc = "loaded"
    /\ cfg' = apply_cli_overrides(cfg, args)
    /\ cfgPc' = "ready"
    /\ UNCHANGED <<env, args, step, parseVars, layoutVars, labelVars, mainVars>>

\* a path of n nodes is laid out and drawn with the configuration
UseConfig ==
    /\ cfgPc = "ready"
    /\ \E n \in 2..MaxPathLen : step' = LabelStep(cfg.label_every, n)
    /\ cfgPc' = "used"
    /\ UNCHANGED <<env, args, cfg, parseVars, layoutVars, labelVars, mainVars>>

NextConfig == FromEnv \/ ApplyCliOverrides \/ UseConfig

SpecConfig == InitConfig /\ [][NextConfig]_vars

\* C10: after from_env and apply_cli_overrides the column count is at
\* least 2 and the label step used for drawing is at least 1, whatever the
\* environment and the command line give.
C10_PositiveDivisors ==
    /\ cfgPc \in {"ready", "used"} => cfg.cols_per_row >= 2
    /\ cfgPc = "used" => step >= 1

C10_Witness ==
    /\ cfgPc = "used"
    /\ env.COLS_PER_ROW = Some(<<"0">>)
    /\ env.LABEL_EVERY = Some(<<"-", "1">>)
    /\ args.cols = Some(1)
    /\ args.label_every = Some(0)
    /\ cfg.cols_per_row = 2
    /\ cfg.label_every = Some(-1)
    /\ step = 1

(***************************************************************************)
(* The interactive loop: main, repl, visualize_once, choose_single_route.  *)
(* pc is the place the process is at: "main" before repl, then inside      *)
(* visualize_once "connect", "read", "select" (the input of                *)
(* choose_single_route), "chosen", "layout", "draw", "browser", and in     *)
(* repl "prompt"; the process ends in "exited" (the operator typed exit),  *)
(* "interrupted" (KeyboardInterrupt or EOFError, caught by repl) or        *)
(* "crashed" (an exception nobody catches).                                *)
(***************************************************************************)
R_ab == <<"P", "a", "t", "h", ":", " ", "a", " ", "-", ">", " ", "b">>
R_a == <<"P", "a", "t", "h", ":", " ", "a">>
R_aba == <<"a", "-", ">", "b", "-", ">", "a">>
R_empty == <<>>

RouteLines == {R_ab, R_a, R_aba, R_empty}

\* what the operator types at the selection prompt
ChoiceInputs ==
    { <<"q">>, <<"Q">>, <<" ", "q", "u", "i", "t", " ">>, <<"E", "X", "I", "T">>,
      <<"1">>, <<"2">>, <<"3">>, <<" ", "1", " ">>, <<"0", "2">>,
      <<"0">>, <<"9">>, <<"-", "1">>, <<"x">>, <<>>, <<"1", ".", "5">>,
      <<SuperscriptTwo>>, <<"1", SuperscriptTwo>> }

\* what the operator types at the prompt of repl
ReplInputs ==
    { <<>>, <<"e", "x", "i", "t">>, <<" ", "E", "x", "i", "t", " ">>, <<"q">> }

Exit == <<"e", "x", "i", "t">>
QuitTokens == { <<"q">>, <<"q", "u", "i", "t">>, Exit }

\* LRANGE key 0 stop of the list: the elements 0..stop, both included
LRange0(list, stop) == SubSeq(list, 1, Min(Len(list), stop + 1))

\* len(nodes) < 1 in place of len(nodes) < 2
TooShort_lt1(ns) == Len(ns) < 1

\* the test of visualize_once on the parsed route
TooShort(ns) == Len(ns) < 2

Init ==
    /\ env \in [ LAYOUT : {NoneV, Some(<<"S", "i", "n", "g", "l", "e">>)},
                 COLS_PER_ROW : {NoneV},
                 MAX_DISPLAY_ROUTES : EnvIntTexts,
                 LABEL_EVERY : {NoneV},
                 OPEN_IN_BROWSER : {NoneV, Some(<<"N", "o">>)} ]
    /\ args = NoArgs
    /\ cfg = <<>>
    /\ step = 0
    /\ cfgPc = "start"
    /\ store \in SeqsUpTo(RouteLines, MaxRoutes)
    /\ pc = "main"
    /\ cmd = <<>>
    /\ NoAttempt
    /\ IdleParse
    /\ IdleLayout
    /\ IdleLabel

others == <<parseVars, layoutVars, labelVars, cfgVars, store>>

\* main calls repl, which calls visualize_once
Repl ==
    /\ pc = "main"
    /\ cfgPc = "ready"
    /\ pc' = "connect"
    /\ UNCHANGED <<cmd, attemptVars, others>>

\* connect_redis; an exception is reported and ends the attempt
Connect ==
    /\ pc = "connect"
    /\ \E ok \in BOOLEAN : pc' = IF ok THEN "read" ELSE "prompt"
    /\ UNCHANGED <<cmd, attemptVars, others>>

\* llen and lrange, the tests on route_lines, and choose_single_route up
\* to its first input
ReadStore ==
    /\ pc = "read"
    /\ \E ok \in BOOLEAN :
          LET cap == cfg.max_display_routes
              lines == LRange0(store, Max(0, cap - 1))
              total == Len(lines)
          IN IF ~ok
             THEN pc' = "prompt" /\ UNCHANGED <<route_lines, shown, chosen>>
             ELSE /\ route_lines' = lines
                  /\ IF lines = <<>>
                     THEN pc' = "prompt" /\ UNCHANGED <<shown, chosen>>
                     ELSE /\ shown' = Min(total, cap)
                          /\ IF total = 0
                             THEN chosen' = <<>> /\ pc' = "chosen"
                             ELSE pc' = "select" /\ UNCHANGED chosen
    /\ UNCHANGED <<cmd, choice, nodes, pos, posComputed, fileWritten,
                   browserOpened, others>>

\* one turn of the while loop of choose_single_route
Choose ==
    /\ pc = "select"
    /\ \E typed \in ChoiceInputs :
          LET c == Strip(typed)
          IN /\ choice' = typed
             /\ IF Lower(c) \in QuitTokens
                THEN chosen' = <<>> /\ pc' = "chosen"
                ELSE IF ~isdigit(c)
                THEN pc' = "select" /\ UNCHANGED chosen
                ELSE IF ~py_int(c).ok
                THEN pc' = "crashed" /\ UNCHANGED chosen
                ELSE IF 1 <= py_int(c).val /\ py_int(c).val <= shown
                THEN chosen' = route_lines[py_int(c).val] /\ pc' = "chosen"
                ELSE pc' = "select" /\ UNCHANGED chosen
    /\ UNCHANGED <<cmd, route_lines, shown, nodes, pos, posComputed,
                   fileWritten, browserOpened, others>>

\* input raises KeyboardInterrupt or EOFError; repl catches it and returns
Interrupt ==
    /\ pc \in {"select", "prompt"}
    /\ pc' = "interrupted"
    /\ UNCHANGED <<cmd, attemptVars, others>>

\* visualize_once after choose_single_route: not chosen, extract_nodes,
\* the test on the number of nodes
AfterChoose ==
    /\ pc = "chosen"
    /\ IF chosen = <<>>
       THEN pc' = "prompt" /\ UNCHANGED nodes
       ELSE /\ nodes' = extract_nodes(chosen)
            /\ pc' = IF TooShort(nodes') THEN "prompt" ELSE "layout"
    /\ UNCHANGED <<cmd, route_lines, shown, choice, chosen, pos, posComputed,
                   fileWritten, browserOpened, others>>

Layout ==
    /\ pc = "layout"
    /\ pos' = compute_pos(nodes, cfg.layout, cfg.cols_per_row)
    /\ posComputed' = TRUE
    /\ pc' = "draw"
    /\ UNCHANGED <<cmd, route_lines, shown, choice, chosen, nodes,
                   fileWritten, browserOpened, others>>

\* draw_path_interactive: ValueError for a short path, or an error of
\* makedirs or write_html, is reported and ends the attempt
Draw ==
    /\ pc = "draw"
    /\ \E ok \in BOOLEAN :
          IF DrawRaises(nodes) \/ ~ok
          THEN pc' = "prompt" /\ UNCHANGED fileWritten
          ELSE /\ fileWritten' = TRUE
               /\ pc' = IF cfg.open_in_browser THEN "browser" ELSE "prompt"
    /\ UNCHANGED <<cmd, route_lines, shown, choice, chosen, nodes, pos,
                   posComputed, browserOpened, others>>

OpenBrowser ==
    /\ pc = "browser"
    /\ \E ok \in BOOLEAN : browserOpened' = ok
    /\ pc' = "prompt"
    /\ UNCHANGED <<cmd, route_lines, shown, choice, chosen, nodes, pos,
                   posComputed, fileWritten, others>>

\* the prompt of repl: exit ends the loop, anything else starts a new call
\* of visualize_once with fresh locals
ReplPrompt ==
    /\ pc = "prompt"
    /\ \E typed \in ReplInputs :
          /\ cmd' = Lower(Strip(typed))
          /\ IF cmd' = Exit
             THEN pc' = "exited" /\ UNCHANGED attemptVars
             ELSE /\ pc' = "connect"
                  /\ route_lines' = <<>>
                  /\ shown' = 0
                  /\ choice' = <<>>
                  /\ chosen' = <<>>
                  /\ nodes' = <<>>
                  /\ pos' = <<>>
                  /\ posComputed' = FALSE
                  /\ fileWritten' = FALSE
                  /\ browserOpened' = FALSE
    /\ UNCHANGED others

Next ==
    \/ FromEnv
    \/ ApplyCliOverrides
    \/ Repl
    \/ Connect
    \/ ReadStore
    \/ Choose
    \/ Interrupt
    \/ AfterChoose
    \/ Layout
    \/ Draw
    \/ OpenBrowser
    \/ ReplPrompt

Spec == Init /\ [][Next]_vars

\* The inputs that are a quit token ('q', 'quit' or 'exit' in any letter
\* case) and the index each input stands for (0 for no index).
QuitInputs ==
    { <<"q">>, <<"Q">>, <<" ", "q", "u", "i", "t", " ">>, <<"E", "X", "I", "T">> }

IndexOf(typed) ==
    CASE typed \in { <<"1">>, <<" ", "1", " ">> } -> 1
      [] typed \in { <<"2">>, <<"0", "2">> } -> 2
      [] typed = <<"3">> -> 3
      [] typed = <<"9">> -> 9
      [] OTHER -> 0

ValidIndex(typed) == IndexOf(typed) \in 1..shown

\* C1: at the selection prompt an input that is neither a quit token nor
\* an index in 1..shown makes the function prompt again (it neither
\* returns nor raises), and a quit token makes it return the empty string.
C1_RepromptOrCancel ==
    [][(pc = "select" /\ pc' # "interrupted") =>
          /\ choice' \in QuitInputs => (pc' = "chosen" /\ chosen' = <<>>)
          /\ (choice' \notin QuitInputs /\ ~ValidIndex(choice'))
                => pc' = "select"]_vars

\* C2: no failure of a visualization attempt ends the process: it ends
\* only when the operator types exit at the prompt of repl, or on an
\* interrupt or end of input.
C2_OnlyExitEndsProcess ==
    /\ pc # "crashed"
    /\ pc = "exited" => cmd = Exit

\* C3: layout is computed, a file written and the browser opened only for
\* a route that parsed to at least 2 nodes.
C3_ShortRouteRejected ==
    /\ (posComputed \/ fileWritten \/ browserOpened) => Len(nodes) >= 2
    /\ pc \in {"layout", "draw", "browser"} => Len(nodes) >= 2

C3_Witness ==
    /\ pc = "prompt"
    /\ chosen = R_a
    /\ nodes = << <<"a">> >>
    /\ ~posComputed
    /\ ~fileWritten
    /\ ~browserOpened

\* C9: at the selection prompt at least one route is displayed
\* (shown >= 1), and a route returned for an index is the displayed route
\* at that index.
C9_SelectionPossible ==
    /\ pc = "select" => shown >= 1
    /\ (pc = "chosen" /\ choice # <<>> /\ choice \notin QuitInputs)
          => /\ ValidIndex(choice)
             /\ IndexOf(choice) <= Len(route_lines)
             /\ chosen = route_lines[IndexOf(choice)]

====
